---- MODULE Spec2Model ----
(***************************************************************************)
(* ipld-example: generating a CAR (content-addressed archive) of IPLD      *)
(* blocks and inspecting it.                                                *)
(*                                                                          *)
(* src/ipld-example.js is the current script (multiformats, @ipld/car);     *)
(* src/unnamed/part_000 is the older script (datastore-car, @ipld/block)    *)
(* followed by the README.  Both have two entry points: run (createBlocks   *)
(* and write) and inspect.                                                  *)
(*                                                                          *)
(* The scripts are modelled from their source.  The libraries they call     *)
(* (the codecs, the hasher, Block, CarWriter, CarReader) are not part of    *)
(* the source files; they are modelled at byte level from the design        *)
(* document (spec.md sections 4 and 6).  SHA-256 itself is abstracted by a  *)
(* checksum-like digest of the same length.                                 *)
(***************************************************************************)
EXTENDS Integers, Sequences, FiniteSets, TLC

(***************************************************************************)
(* Bytes are 0..255, byte strings are sequences of bytes.                   *)
(***************************************************************************)
Byte == 0..255

RECURSIVE Concat(_)
\* The concatenation of a sequence of byte strings.
Concat(ss) == IF ss = <<>> THEN <<>> ELSE Head(ss) \o Concat(Tail(ss))

\* The sequence [k \in 1..n |-> ...] with its n elements computed.
Tuple(f, n) == SubSeq(f, 1, n)

\* s from position pos (1-based) to its end.
From(s, pos) == SubSeq(s, pos, Len(s))

(***************************************************************************)
(* Varint: unsigned LEB128, least significant group first.                  *)
(***************************************************************************)
RECURSIVE VarintEncode(_)
VarintEncode(n) ==
  IF n < 128 THEN <<n>> ELSE <<(n % 128) + 128>> \o VarintEncode(n \div 128)

RECURSIVE VarintDecodeAt(_, _, _, _)
\* The varint of s at pos: [ok, value, next]; not ok when s ends inside it.
VarintDecodeAt(s, pos, acc, mult) ==
  IF pos > Len(s) THEN [ok |-> FALSE, value |-> 0, next |-> pos]
  ELSE IF s[pos] < 128
       THEN [ok |-> TRUE, value |-> acc + s[pos] * mult, next |-> pos + 1]
       ELSE VarintDecodeAt(s, pos + 1, acc + (s[pos] - 128) * mult, mult * 128)

VarintDecode(s, pos) == VarintDecodeAt(s, pos, 0, 1)

(***************************************************************************)
(* Multicodec codes of the codecs and hashers the scripts import or name.   *)
(***************************************************************************)
RawCode == 85         \* 0x55   multiformats/codecs/raw
DagCborCode == 113    \* 0x71   @ipld/dag-cbor
DagJsonCode == 297    \* 0x0129 @ipld/dag-json
DagPbCode == 112      \* 0x70   @ipld/dag-pb (named in a comment, not registered)
Sha256Code == 18      \* 0x12   multiformats/hashes/sha2 sha256
Sha3256Code == 22     \* 0x16   @multiformats/sha3 sha3256 (named in a comment)
\* Length of a digest of either hash function.
DigestLen == 32

(***************************************************************************)
(* Multihash registry (spec.md 4.1).  The digest stands for SHA-256: byte   *)
(* i mixes the length and every input byte with a position weight, so that  *)
(* the result depends on the hash function, on each byte and on the order.  *)
(***************************************************************************)
RECURSIVE WeightedSum(_, _, _, _)
\* The sum over j in lo..hi of bytes[j] * (1 + (i - 1) * j) % 256, by halving.
WeightedSum(bytes, i, lo, hi) ==
  IF lo > hi THEN 0
  ELSE IF lo = hi THEN (bytes[lo] * ((1 + (i - 1) * lo) % 256)) % 256
  ELSE LET mid == (lo + hi) \div 2
       IN  WeightedSum(bytes, i, lo, mid) + WeightedSum(bytes, i, mid + 1, hi)

Digest(fnCode, bytes) ==
  Tuple([i \in 1..DigestLen |->
           (fnCode + Len(bytes) + WeightedSum(bytes, i, 1, Len(bytes))) % 256],
        DigestLen)

\* hash(functionCode, bytes) -> Multihash
Hash(fnCode, bytes) == [code |-> fnCode, digest |-> Digest(fnCode, bytes)]

MultihashBytes(mh) ==
  VarintEncode(mh.code) \o VarintEncode(Len(mh.digest)) \o mh.digest

(***************************************************************************)
(* CID (spec.md 4.2, 6): [version, code, mh].                               *)
(***************************************************************************)
CIDCreate(version, code, mh) == [version |-> version, code |-> code, mh |-> mh]

\* Binary form: v1 is version, codec, multihash; v0 is the bare multihash.
CIDBytes(c) ==
  IF c.version = 0 THEN MultihashBytes(c.mh)
  ELSE VarintEncode(c.version) \o VarintEncode(c.code) \o MultihashBytes(c.mh)

NoCID == CIDCreate(1, 0, [code |-> 0, digest |-> <<>>])

\* The multihash of s at pos: [ok, mh, next].
MultihashParse(s, pos) ==
  LET Parsed(c, l) ==
        IF c.ok /\ l.ok /\ l.next + l.value - 1 <= Len(s)
        THEN [ok |-> TRUE,
              mh |-> [code |-> c.value,
                      digest |-> SubSeq(s, l.next, l.next + l.value - 1)],
              next |-> l.next + l.value]
        ELSE [ok |-> FALSE, mh |-> NoCID.mh, next |-> pos]
      AfterCode(c) == Parsed(c, VarintDecode(s, c.next))
  IN  AfterCode(VarintDecode(s, pos))

\* The CID that starts at pos of s: [ok, cid, next].  A v0 CID is recognised by
\* its lead bytes (sha2-256, 32 byte digest) and is always dag-pb.
CIDParse(s, pos) ==
  LET Parsed(v, c, m) ==
        IF pos + 1 <= Len(s) /\ s[pos] = Sha256Code /\ s[pos + 1] = DigestLen
        THEN [ok |-> m.ok, cid |-> CIDCreate(0, DagPbCode, m.mh), next |-> m.next]
        ELSE IF v.ok /\ v.value = 1 /\ c.ok /\ m.ok
        THEN [ok |-> TRUE, cid |-> CIDCreate(1, c.value, m.mh), next |-> m.next]
        ELSE [ok |-> FALSE, cid |-> NoCID, next |-> pos]
      AfterCodec(v, c) ==
        Parsed(v, c,
               MultihashParse(s, IF pos + 1 <= Len(s) /\ s[pos] = Sha256Code
                                    /\ s[pos + 1] = DigestLen
                                 THEN pos ELSE c.next))
      AfterVersion(v) == AfterCodec(v, VarintDecode(s, v.next))
  IN  AfterVersion(VarintDecode(s, pos))

(***************************************************************************)
(* The IPLD data model values the scripts build: integers, byte strings,    *)
(* text (as its UTF-8 bytes), links (CIDs), lists, and maps from text keys. *)
(***************************************************************************)
VInt(n) == [t |-> "int", v |-> n]
VBytes(b) == [t |-> "bytes", v |-> b]
VText(s) == [t |-> "text", v |-> s]
VLink(c) == [t |-> "link", v |-> c]
VList(items) == [t |-> "list", v |-> items]
VMap(f) == [t |-> "map", v |-> f]
NoValue == [t |-> "none", v |-> 0]

RECURSIVE ValueEq(_, _)
\* Equality of two values, by kind first.
ValueEq(a, b) ==
  /\ a.t = b.t
  /\ CASE a.t = "list" ->
            /\ Len(a.v) = Len(b.v)
            /\ \A k \in 1..Len(a.v) : ValueEq(a.v[k], b.v[k])
       [] a.t = "map" ->
            /\ DOMAIN a.v = DOMAIN b.v
            /\ \A k \in DOMAIN a.v : ValueEq(a.v[k], b.v[k])
       [] OTHER -> a.v = b.v

RECURSIVE BytesLess(_, _)
\* Lexicographic order on byte strings.
BytesLess(a, b) ==
  IF a = <<>> THEN b # <<>>
  ELSE IF b = <<>> THEN FALSE
  ELSE IF a[1] # b[1] THEN a[1] < b[1]
  ELSE BytesLess(Tail(a), Tail(b))

\* Map key order: dag-cbor sorts keys by length first, dag-json bytewise.
KeyLess(byLen, a, b) ==
  IF byLen /\ Len(a) # Len(b) THEN Len(a) < Len(b) ELSE BytesLess(a, b)

RECURSIVE SortKeys(_, _)
SortKeys(byLen, S) ==
  IF S = {} THEN <<>>
  ELSE LET m == CHOOSE x \in S : \A y \in S \ {x} : KeyLess(byLen, x, y)
       IN  <<m>> \o SortKeys(byLen, S \ {m})

RECURSIVE Links(_)
\* links(value): every CID embedded anywhere in the value.
Links(v) ==
  CASE v.t = "link" -> {v.v}
    [] v.t = "list" -> UNION {Links(v.v[i]) : i \in 1..Len(v.v)}
    [] v.t = "map" -> UNION {Links(v.v[k]) : k \in DOMAIN v.v}
    [] OTHER -> {}

(***************************************************************************)
(* dag-cbor (spec.md 4.3): canonical CBOR, a CID being tag 42 on a byte     *)
(* string that holds a 0 byte and the CID's binary form.                    *)
(***************************************************************************)
CborHead(major, n) ==
  IF n < 24 THEN <<major * 32 + n>>
  ELSE IF n < 256 THEN <<major * 32 + 24, n>>
  ELSE <<major * 32 + 25, n \div 256, n % 256>>

RECURSIVE CborEncode(_)
CborEncode(v) ==
  CASE v.t = "int" -> CborHead(0, v.v)
    [] v.t = "bytes" -> CborHead(2, Len(v.v)) \o v.v
    [] v.t = "text" -> CborHead(3, Len(v.v)) \o v.v
    [] v.t = "list" ->
         CborHead(4, Len(v.v))
           \o Concat(Tuple([i \in 1..Len(v.v) |-> CborEncode(v.v[i])], Len(v.v)))
    [] v.t = "map" ->
         LET ks == SortKeys(TRUE, DOMAIN v.v)
         IN  CborHead(5, Len(ks))
               \o Concat(Tuple([i \in 1..Len(ks) |->
                                   CborEncode(VText(ks[i])) \o CborEncode(v.v[ks[i]])],
                                Len(ks)))
    [] v.t = "link" ->
         <<216, 42>> \o CborHead(2, 1 + Len(CIDBytes(v.v))) \o <<0>> \o CIDBytes(v.v)

\* The head at pos: [ok, major, arg, next]; only the shortest form is accepted,
\* indefinite lengths and wider arguments are not.
CborHeadAt(s, pos) ==
  LET bad == [ok |-> FALSE, major |-> 0, arg |-> 0, next |-> pos]
  IN  IF pos > Len(s) THEN bad
      ELSE LET major == s[pos] \div 32
               info == s[pos] % 32
           IN  IF info < 24
               THEN [ok |-> TRUE, major |-> major, arg |-> info, next |-> pos + 1]
               ELSE IF info = 24 /\ pos + 1 <= Len(s) /\ s[pos + 1] >= 24
               THEN [ok |-> TRUE, major |-> major, arg |-> s[pos + 1], next |-> pos + 2]
               ELSE IF info = 25 /\ pos + 2 <= Len(s) /\ s[pos + 1] >= 1
               THEN [ok |-> TRUE, major |-> major,
                     arg |-> s[pos + 1] * 256 + s[pos + 2], next |-> pos + 3]
               ELSE bad

NoItem == [ok |-> FALSE, value |-> NoValue, next |-> 0]

\* A decoded sequence of <<key, value>> pairs as a map value; the keys must be
\* strictly increasing in the codec's key order.
PairsToMap(byLen, pairs) ==
  IF \A i \in 1..(Len(pairs) - 1) : KeyLess(byLen, pairs[i][1], pairs[i + 1][1])
  THEN [ok |-> TRUE,
        value |-> VMap([k \in {pairs[i][1] : i \in 1..Len(pairs)} |->
                          pairs[CHOOSE i \in 1..Len(pairs) : pairs[i][1] = k][2]])]
  ELSE [ok |-> FALSE, value |-> NoValue]

RECURSIVE CborDecodeAt(_, _)
RECURSIVE CborItemsAt(_, _, _)
RECURSIVE CborPairsAt(_, _, _)

\* n items from pos: [ok, value (the sequence of items), next].
CborItemsAt(s, pos, n) ==
  LET Items(x, r) ==
        IF ~x.ok \/ ~r.ok THEN NoItem
        ELSE [ok |-> TRUE, value |-> <<x.value>> \o r.value, next |-> r.next]
      First(x) == IF x.ok THEN Items(x, CborItemsAt(s, x.next, n - 1)) ELSE NoItem
  IN  IF n = 0 THEN [ok |-> TRUE, value |-> <<>>, next |-> pos]
      ELSE First(CborDecodeAt(s, pos))

\* n key/value pairs from pos: [ok, value (the sequence of pairs), next].
CborPairsAt(s, pos, n) ==
  LET Pairs(k, x, r) ==
        IF ~r.ok THEN NoItem
        ELSE [ok |-> TRUE, value |-> <<<<k.value.v, x.value>>>> \o r.value,
              next |-> r.next]
      Entry(k, x) == IF x.ok THEN Pairs(k, x, CborPairsAt(s, x.next, n - 1)) ELSE NoItem
      Key(k) ==
        IF ~k.ok \/ k.value.t # "text" THEN NoItem
        ELSE Entry(k, CborDecodeAt(s, k.next))
  IN  IF n = 0 THEN [ok |-> TRUE, value |-> <<>>, next |-> pos]
      ELSE Key(CborDecodeAt(s, pos))

\* The item at pos: [ok, value, next].
CborDecodeAt(s, pos) ==
  LET Link(b, c) ==
        IF c.ok /\ c.next = Len(b.value.v) + 1
        THEN [ok |-> TRUE, value |-> VLink(c.cid), next |-> b.next]
        ELSE NoItem
      Tagged(h, b) ==
        IF h.arg = 42 /\ b.ok /\ b.value.t = "bytes" /\ Len(b.value.v) > 1
           /\ b.value.v[1] = 0
        THEN Link(b, CIDParse(b.value.v, 2))
        ELSE NoItem
      Map(r, m) ==
        IF r.ok /\ m.ok THEN [ok |-> TRUE, value |-> m.value, next |-> r.next]
        ELSE NoItem
      Pairs(r) == Map(r, PairsToMap(TRUE, r.value))
      List(r) ==
        IF r.ok THEN [ok |-> TRUE, value |-> VList(r.value), next |-> r.next]
        ELSE NoItem
      String(h, last, kind) ==
        IF last > Len(s) THEN NoItem
        ELSE [ok |-> TRUE, value |-> [t |-> kind, v |-> SubSeq(s, h.next, last)],
              next |-> last + 1]
      Item(h) ==
        IF ~h.ok THEN NoItem
        ELSE CASE h.major = 0 -> [ok |-> TRUE, value |-> VInt(h.arg), next |-> h.next]
               [] h.major \in {2, 3} ->
                    String(h, h.next + h.arg - 1, IF h.major = 2 THEN "bytes" ELSE "text")
               [] h.major = 4 -> List(CborItemsAt(s, h.next, h.arg))
               [] h.major = 5 -> Pairs(CborPairsAt(s, h.next, h.arg))
               [] h.major = 6 -> Tagged(h, CborDecodeAt(s, h.next))
               [] OTHER -> NoItem
  IN  Item(CborHeadAt(s, pos))

\* decode(bytes): [ok, value]; one item that takes all the bytes.
CborDecode(bytes) ==
  LET Whole(r) ==
        IF r.ok /\ r.next = Len(bytes) + 1 THEN [ok |-> TRUE, value |-> r.value]
        ELSE [ok |-> FALSE, value |-> NoValue]
  IN  Whole(CborDecodeAt(bytes, 1))

(***************************************************************************)
(* Multibase base32 (lower case, no padding), the text form of a v1 CID.    *)
(***************************************************************************)
Pow2(k) == 2 ^ k

\* Bit k (0-based, most significant first) of a string of units of w bits.
BitAt(units, w, k) ==
  IF k \div w + 1 > Len(units) THEN 0
  ELSE (units[k \div w + 1] \div Pow2(w - 1 - (k % w))) % 2

RECURSIVE BitsValue(_, _, _, _)
\* The number that the n bits of `units` from bit k on spell.
BitsValue(units, w, k, n) ==
  IF n = 0 THEN 0
  ELSE BitAt(units, w, k) * Pow2(n - 1) + BitsValue(units, w, k + 1, n - 1)

\* The first n units of `to` bits that the bits of `units` (of `from` bits) make.
Regroup(units, from, to, n) ==
  Tuple([i \in 1..n |-> BitsValue(units, from, to * (i - 1), to)], n)

\* a-z for 0..25, 2-7 for 26..31.
Base32Char(d) == IF d < 26 THEN 97 + d ELSE 50 + (d - 26)
Base32Digit(c) ==
  IF c >= 97 /\ c <= 122 THEN c - 97 ELSE IF c >= 50 /\ c <= 55 THEN c - 50 + 26 ELSE 32

Base32Encode(bytes) ==
  LET Chars(ds) == Tuple([i \in 1..Len(ds) |-> Base32Char(ds[i])], Len(ds))
  IN  Chars(Regroup(bytes, 8, 5, (8 * Len(bytes) + 4) \div 5))

\* [ok, bytes]
Base32Decode(text) ==
  LET Bytes(ds) ==
        IF \E i \in 1..Len(ds) : ds[i] = 32 THEN [ok |-> FALSE, bytes |-> <<>>]
        ELSE [ok |-> TRUE, bytes |-> Regroup(ds, 5, 8, (5 * Len(ds)) \div 8)]
  IN  Bytes(Tuple([i \in 1..Len(text) |-> Base32Digit(text[i])], Len(text)))

\* toString() of a v1 CID: the multibase marker 'b' and the base32 text.
CIDToString(c) == <<98>> \o Base32Encode(CIDBytes(c))

\* CID.parse(text): [ok, cid]
CIDFromString(text) ==
  LET Parsed(b, c) ==
        IF b.ok /\ c.ok /\ c.next = Len(b.bytes) + 1
        THEN [ok |-> TRUE, cid |-> c.cid]
        ELSE [ok |-> FALSE, cid |-> NoCID]
      Decoded(b) == Parsed(b, CIDParse(b.bytes, 1))
  IN  IF text = <<>> \/ text[1] # 98 THEN [ok |-> FALSE, cid |-> NoCID]
      ELSE Decoded(Base32Decode(Tail(text)))

(***************************************************************************)
(* dag-json (spec.md 4.3): JSON text with sorted keys and no white space; a *)
(* CID is the one-key object {"/":"<text form>"}.  The scripts encode lists *)
(* of v1 links with it; the model covers integers, text without escapes,    *)
(* v1 links, lists and maps.                                                *)
(***************************************************************************)
RECURSIVE Decimal(_)
Decimal(n) == IF n < 10 THEN <<48 + n>> ELSE Decimal(n \div 10) \o <<48 + (n % 10)>>

RECURSIVE Join(_)
\* The byte strings of ss with a comma between them.
Join(ss) ==
  IF ss = <<>> THEN <<>>
  ELSE IF Len(ss) = 1 THEN ss[1]
  ELSE ss[1] \o <<44>> \o Join(Tail(ss))

JsonString(t) == <<34>> \o t \o <<34>>

RECURSIVE JsonEncode(_)
JsonEncode(v) ==
  CASE v.t = "int" -> Decimal(v.v)
    [] v.t = "text" -> JsonString(v.v)
    [] v.t = "list" ->
         <<91>> \o Join(Tuple([i \in 1..Len(v.v) |-> JsonEncode(v.v[i])], Len(v.v)))
           \o <<93>>
    [] v.t = "map" ->
         LET ks == SortKeys(FALSE, DOMAIN v.v)
         IN  <<123>>
               \o Join(Tuple([i \in 1..Len(ks) |->
                                 JsonString(ks[i]) \o <<58>> \o JsonEncode(v.v[ks[i]])],
                              Len(ks)))
               \o <<125>>
    [] v.t = "link" ->
         <<123>> \o JsonString(<<47>>) \o <<58>> \o JsonString(CIDToString(v.v)) \o <<125>>

\* The first position >= pos of s that holds b, or 0.
FindByte(s, pos, b) ==
  LET hits == {i \in pos..Len(s) : s[i] = b}
  IN  IF hits = {} THEN 0 ELSE CHOOSE i \in hits : \A j \in hits : i <= j

IsDigit(c) == c >= 48 /\ c <= 57

\* The first position >= pos of s that holds no digit.
DigitsEnd(s, pos) ==
  LET stops == {i \in pos..Len(s) : ~IsDigit(s[i])}
  IN  IF stops = {} THEN Len(s) + 1 ELSE CHOOSE i \in stops : \A j \in stops : i <= j

RECURSIVE ParseDecimal(_)
ParseDecimal(ds) ==
  IF ds = <<>> THEN 0
  ELSE ParseDecimal(SubSeq(ds, 1, Len(ds) - 1)) * 10 + (ds[Len(ds)] - 48)

\* The string at pos: [ok, value (its characters), next].
JsonStringAt(s, pos) ==
  LET Closed(close) ==
        IF pos <= Len(s) /\ s[pos] = 34 /\ close > 0
        THEN [ok |-> TRUE, value |-> SubSeq(s, pos + 1, close - 1), next |-> close + 1]
        ELSE [ok |-> FALSE, value |-> <<>>, next |-> pos]
  IN  Closed(FindByte(s, pos + 1, 34))

RECURSIVE JsonDecodeAt(_, _)
RECURSIVE JsonItemsAt(_, _)
RECURSIVE JsonPairsAt(_, _)

\* Items up to the closing bracket, pos being where an item starts.
JsonItemsAt(s, pos) ==
  LET Items(x, r) ==
        IF r.ok THEN [ok |-> TRUE, value |-> <<x.value>> \o r.value, next |-> r.next]
        ELSE NoItem
      First(x) ==
        IF ~x.ok \/ x.next > Len(s) THEN NoItem
        ELSE IF s[x.next] = 93
        THEN [ok |-> TRUE, value |-> <<x.value>>, next |-> x.next + 1]
        ELSE IF s[x.next] = 44 THEN Items(x, JsonItemsAt(s, x.next + 1))
        ELSE NoItem
  IN  First(JsonDecodeAt(s, pos))

\* "key":value pairs up to the closing brace, pos being where a key starts.
JsonPairsAt(s, pos) ==
  LET Pairs(k, x, r) ==
        IF r.ok
        THEN [ok |-> TRUE, value |-> <<<<k.value, x.value>>>> \o r.value, next |-> r.next]
        ELSE NoItem
      Entry(k, x) ==
        IF ~x.ok \/ x.next > Len(s) THEN NoItem
        ELSE IF s[x.next] = 125
        THEN [ok |-> TRUE, value |-> <<<<k.value, x.value>>>>, next |-> x.next + 1]
        ELSE IF s[x.next] = 44 THEN Pairs(k, x, JsonPairsAt(s, x.next + 1))
        ELSE NoItem
      Key(k) ==
        IF ~k.ok \/ k.next > Len(s) \/ s[k.next] # 58 THEN NoItem
        ELSE Entry(k, JsonDecodeAt(s, k.next + 1))
  IN  Key(JsonStringAt(s, pos))

\* An object read as pairs: the one-key object {"/": text} is a link.
JsonObject(pairs) ==
  LET Link(c) == [ok |-> c.ok, value |-> VLink(c.cid)]
  IN  IF Len(pairs) = 1 /\ pairs[1][1] = <<47>>
      THEN IF pairs[1][2].t = "text" THEN Link(CIDFromString(pairs[1][2].v))
           ELSE [ok |-> FALSE, value |-> NoValue]
      ELSE PairsToMap(FALSE, pairs)

\* The value at pos: [ok, value, next].
JsonDecodeAt(s, pos) ==
  LET Text(t) ==
        IF t.ok THEN [ok |-> TRUE, value |-> VText(t.value), next |-> t.next]
        ELSE NoItem
      Number(e) ==
        IF s[pos] = 48 /\ e > pos + 1 THEN NoItem
        ELSE [ok |-> TRUE, value |-> VInt(ParseDecimal(SubSeq(s, pos, e - 1))),
              next |-> e]
      List(r) ==
        IF r.ok THEN [ok |-> TRUE, value |-> VList(r.value), next |-> r.next]
        ELSE NoItem
      Object(r, o) ==
        IF r.ok /\ o.ok THEN [ok |-> TRUE, value |-> o.value, next |-> r.next]
        ELSE NoItem
      Pairs(r) == IF r.ok THEN Object(r, JsonObject(r.value)) ELSE NoItem
  IN  IF pos > Len(s) THEN NoItem
      ELSE CASE s[pos] = 34 -> Text(JsonStringAt(s, pos))
             [] IsDigit(s[pos]) -> Number(DigitsEnd(s, pos))
             [] s[pos] = 91 ->
                  IF pos + 1 <= Len(s) /\ s[pos + 1] = 93
                  THEN [ok |-> TRUE, value |-> VList(<<>>), next |-> pos + 2]
                  ELSE List(JsonItemsAt(s, pos + 1))
             [] s[pos] = 123 ->
                  IF pos + 1 <= Len(s) /\ s[pos + 1] = 125
                  THEN [ok |-> TRUE, value |-> VMap(<<>>), next |-> pos + 2]
                  ELSE Pairs(JsonPairsAt(s, pos + 1))
             [] OTHER -> NoItem

\* decode(bytes): [ok, value]; one value that takes all the bytes.
JsonDecode(bytes) ==
  LET Whole(r) ==
        IF r.ok /\ r.next = Len(bytes) + 1 THEN [ok |-> TRUE, value |-> r.value]
        ELSE [ok |-> FALSE, value |-> NoValue]
  IN  Whole(JsonDecodeAt(bytes, 1))

(***************************************************************************)
(* Codecs and hashers as the scripts hold them: objects with a code and a   *)
(* name.  CodecEncode/CodecDecode dispatch on the codec (spec.md 4.3).      *)
(***************************************************************************)
raw == [code |-> RawCode, name |-> "raw"]
dagCBOR == [code |-> DagCborCode, name |-> "dag-cbor"]
dagJSON == [code |-> DagJsonCode, name |-> "dag-json"]
sha256 == [code |-> Sha256Code, name |-> "sha2-256"]

\* raw is the identity on byte strings.
CodecEncode(codec, value) ==
  CASE codec.code = RawCode -> value.v
    [] codec.code = DagCborCode -> CborEncode(value)
    [] codec.code = DagJsonCode -> JsonEncode(value)

\* [ok, value]
CodecDecode(codec, bytes) ==
  CASE codec.code = RawCode -> [ok |-> TRUE, value |-> VBytes(bytes)]
    [] codec.code = DagCborCode -> CborDecode(bytes)
    [] codec.code = DagJsonCode -> JsonDecode(bytes)
    [] OTHER -> [ok |-> FALSE, value |-> NoValue]

(***************************************************************************)
(* Block (spec.md 4.4).                                                     *)
(***************************************************************************)
\* Block.encode({value, codec, hasher})
BlockEncode(value, codec, hasher) ==
  LET Encoded(bytes) ==
        [cid |-> CIDCreate(1, codec.code, Hash(hasher.code, bytes)),
         bytes |-> bytes, value |-> value]
  IN  Encoded(CodecEncode(codec, value))

\* Block.create that decodes without comparing the digest or the codec.
BlockCreateUnverified(cid, bytes, codec, hasher) ==
  LET Decoded(d) ==
        IF d.ok THEN [err |-> "none", value |-> d.value]
        ELSE [err |-> "DecodeError", value |-> NoValue]
  IN  Decoded(CodecDecode(codec, bytes))

\* Block.create({cid, bytes, codec, hasher}): [err, value]; err is "none" when a
\* Block is produced.  The hash is checked first, then the codec, then the bytes
\* are decoded.
BlockCreate(cid, bytes, codec, hasher) ==
  LET Decoded(d) ==
        IF d.ok THEN [err |-> "none", value |-> d.value]
        ELSE [err |-> "DecodeError", value |-> NoValue]
  IN  IF Hash(hasher.code, bytes) # cid.mh
      THEN [err |-> "HashMismatchError", value |-> NoValue]
      ELSE IF cid.code # codec.code
      THEN [err |-> "CodecMismatchError", value |-> NoValue]
      ELSE Decoded(CodecDecode(codec, bytes))

(***************************************************************************)
(* The container format (spec.md 4.5, 4.6, 6): varint-length-prefixed       *)
(* frames, the header first, then one frame per block.                      *)
(***************************************************************************)
Frame(payload) == VarintEncode(Len(payload)) \o payload

\* "roots" and "version"
KeyRoots == <<114, 111, 111, 116, 115>>
KeyVersion == <<118, 101, 114, 115, 105, 111, 110>>

HeaderBytes(rts) ==
  CborEncode(VMap(KeyRoots :> VList(Tuple([i \in 1..Len(rts) |-> VLink(rts[i])],
                                          Len(rts)))
                  @@ KeyVersion :> VInt(1)))

HeaderFrame(rts) == Frame(HeaderBytes(rts))

BlockFrame(block) == Frame(CIDBytes(block.cid) \o block.bytes)

\* The frame of s at pos: [status, payload, next], status being "ok", "eof" (s ends
\* at pos, on a frame boundary) or "truncated" (s ends inside the length or before
\* the declared length is reached).
ReadFrame(s, pos) ==
  LET Framed(l, last) ==
        IF ~l.ok \/ last > Len(s)
        THEN [status |-> "truncated", payload |-> <<>>, next |-> pos]
        ELSE [status |-> "ok", payload |-> SubSeq(s, l.next, last), next |-> last + 1]
      Length(l) == Framed(l, l.next + l.value - 1)
  IN  IF pos > Len(s) THEN [status |-> "eof", payload |-> <<>>, next |-> pos]
      ELSE Length(VarintDecode(s, pos))

\* The header a payload decodes to: [ok, roots].
HeaderDecode(payload) ==
  LET Header(d, h) ==
        IF d.ok /\ h.t = "map" /\ DOMAIN h.v = {KeyRoots, KeyVersion}
           /\ ValueEq(h.v[KeyVersion], VInt(1)) /\ h.v[KeyRoots].t = "list"
           /\ \A i \in 1..Len(h.v[KeyRoots].v) : h.v[KeyRoots].v[i].t = "link"
        THEN [ok |-> TRUE,
              roots |-> Tuple([i \in 1..Len(h.v[KeyRoots].v) |-> h.v[KeyRoots].v[i].v],
                              Len(h.v[KeyRoots].v))]
        ELSE [ok |-> FALSE, roots |-> <<>>]
      Decoded(d) == Header(d, d.value)
  IN  Decoded(CborDecode(payload))

\* Reader open(inputStream): [err, roots, next]
ReaderOpen(s) ==
  LET Opened(f, h) ==
        IF f.status # "ok"
        THEN [err |-> "TruncatedRecordError", roots |-> <<>>, next |-> 1]
        ELSE IF ~h.ok THEN [err |-> "MalformedHeaderError", roots |-> <<>>, next |-> 1]
        ELSE [err |-> "none", roots |-> h.roots, next |-> f.next]
      First(f) == Opened(f, HeaderDecode(f.payload))
  IN  First(ReadFrame(s, 1))

NoRecord == [cid |-> NoCID, bytes |-> <<>>]

\* One pull of records(): [err, done, record, next]
ReaderNext(s, pos) ==
  LET Record(f, c) ==
        CASE f.status = "eof" ->
               [err |-> "none", done |-> TRUE, record |-> NoRecord, next |-> pos]
          [] f.status = "truncated" ->
               [err |-> "TruncatedRecordError", done |-> FALSE, record |-> NoRecord,
                next |-> pos]
          [] OTHER ->
               IF c.ok
               THEN [err |-> "none", done |-> FALSE,
                     record |-> [cid |-> c.cid, bytes |-> From(f.payload, c.next)],
                     next |-> f.next]
               ELSE [err |-> "MalformedCIDError", done |-> FALSE, record |-> NoRecord,
                     next |-> pos]
      Pulled(f) == Record(f, CIDParse(f.payload, 1))
  IN  Pulled(ReadFrame(s, pos))

(***************************************************************************)
(* createBlocks (run, in the older script): the values, as UTF-8 bytes.     *)
(***************************************************************************)
\* 'name'
TName ==
    <<110, 97, 109, 101>>
\* 'children'
TChildren ==
    <<99, 104, 105, 108, 100, 114, 101, 110>>
\* 'favouriteChild'
TFavouriteChild ==
    <<102, 97, 118, 111, 117, 114, 105, 116, 101, 67, 104, 105, 108, 100>>
\* 'link'
TLink ==
    <<108, 105, 110, 107>>
\* 'data'
TData ==
    <<100, 97, 116, 97>>
\* 'startByte'
TStartByte ==
    <<115, 116, 97, 114, 116, 66, 121, 116, 101>>
\* 'endByte'
TEndByte ==
    <<101, 110, 100, 66, 121, 116, 101>>
\* 'parent of some weird children'
TParentName ==
    <<112, 97, 114, 101, 110, 116, 32, 111, 102, 32, 115, 111, 109, 101, 32, 119,
      101, 105, 114, 100, 32, 99, 104, 105, 108, 100, 114, 101, 110>>
\* 'parent'
TParent ==
    <<112, 97, 114, 101, 110, 116>>
\* 'lister'
TLister ==
    <<108, 105, 115, 116, 101, 114>>

\* utf8Encoder.encode of a tree, ' leaf node of raw bytes ' and a palm
LeafRaw1Value ==
    <<240, 159, 140, 178, 32, 108, 101, 97, 102, 32, 110, 111, 100, 101, 32, 111,
      102, 32, 114, 97, 119, 32, 98, 121, 116, 101, 115, 32, 240, 159, 140, 180>>
\* The four bytes of a tree and of a palm.
Tree == <<240, 159, 140, 178>>
Palm == <<240, 159, 140, 180>>
\* utf8Encoder.encode of 13 trees and 9 palms
LeafRaw2Value ==
  Concat(Tuple([i \in 1..13 |-> Tree], 13)) \o Concat(Tuple([i \in 1..9 |-> Palm], 9))

\* CID.parse('QmV88khHDJEXi7wo6o972MZWY661R9PhrZW6dvpFP6jnMn'): a v0 CID, the
\* base58btc text of a sha2-256 multihash with this digest.
ExternalDigest ==
    <<100, 204, 247, 215, 142, 116, 181, 80, 84, 227, 13, 252, 171, 193, 40, 208,
      244, 156, 33, 84, 136, 182, 185, 131, 50, 55, 21, 110, 224, 183, 153, 169>>
externalLink == CIDCreate(0, DagPbCode, [code |-> Sha256Code, digest |-> ExternalDigest])

leafRaw1 == BlockEncode(VBytes(LeafRaw1Value), raw, sha256)
leafRaw2 == BlockEncode(VBytes(LeafRaw2Value), raw, sha256)

parent ==
  BlockEncode(VMap(TName :> VText(TParentName)
                   @@ TChildren :> VList(<<VLink(leafRaw1.cid), VLink(leafRaw2.cid)>>)
                   @@ TFavouriteChild :> VLink(leafRaw2.cid)),
              dagCBOR, sha256)

lister ==
  BlockEncode(VList(<<VLink(parent.cid), VLink(leafRaw1.cid), VLink(leafRaw2.cid)>>),
              dagJSON, sha256)

grandparent ==
  BlockEncode(VList(<<VMap(TName :> VText(TParent) @@ TLink :> VLink(parent.cid)),
                      VMap(TName :> VText(TLister) @@ TLink :> VLink(lister.cid)),
                      VLink(externalLink)>>),
              dagCBOR, sha256)

evergreenPointer ==
  BlockEncode(VMap(TData :> VLink(leafRaw2.cid)
                   @@ TStartByte :> VInt(0) @@ TEndByte :> VInt(52)),
              dagCBOR, sha256)

palmsPointer ==
  BlockEncode(VMap(TData :> VLink(leafRaw2.cid)
                   @@ TStartByte :> VInt(52) @@ TEndByte :> VInt(88)),
              dagCBOR, sha256)

\* What write and the container keep of a block: {cid, bytes}.
Rec(block) == [cid |-> block.cid, bytes |-> block.bytes]

\* The blocks in the order createBlocks pushes them, and the roots it returns.
CreatedBlocksWithoutLister ==
  <<Rec(leafRaw1), Rec(leafRaw2), Rec(parent), Rec(grandparent),
    Rec(evergreenPointer), Rec(palmsPointer)>>

CreatedBlocks ==
  <<Rec(leafRaw1), Rec(leafRaw2), Rec(parent), Rec(lister), Rec(grandparent),
    Rec(evergreenPointer), Rec(palmsPointer)>>
CreatedRoots == <<grandparent.cid>>

(***************************************************************************)
(* CarWriter (spec.md 4.5, 5) as the scripts use it.  A writer is           *)
(* [state, out, ended]: out is the queue of frames emitted and not yet      *)
(* taken by the consumer of the output, ended says end-of-output was        *)
(* signalled.                                                               *)
(***************************************************************************)
NoWriter == [state |-> "none", out |-> <<>>, ended |-> FALSE]

\* CarWriter.create(roots): the header frame is emitted at once.
WriterCreate(rts) == [state |-> "open", out |-> <<HeaderFrame(rts)>>, ended |-> FALSE]

\* CarDatastore.writeStream(stream) of the older script: nothing emitted yet.
WriterOpenStream == [state |-> "open", out |-> <<>>, ended |-> FALSE]

\* setRoots(roots) of the older script: [err, writer]
WriterSetRoots(w, rts) ==
  IF w.state # "open" THEN [err |-> "WriteAfterCloseError", writer |-> w]
  ELSE [err |-> "none", writer |-> [w EXCEPT !.out = Append(@, HeaderFrame(rts))]]

\* put(block) that does not look at the state of the writer.
WriterPutAnyState(w, block) ==
  [err |-> "none", writer |-> [w EXCEPT !.out = Append(@, BlockFrame(block))]]

\* put(block): [err, writer]
WriterPut(w, block) ==
  IF w.state # "open" THEN [err |-> "WriteAfterCloseError", writer |-> w]
  ELSE [err |-> "none", writer |-> [w EXCEPT !.out = Append(@, BlockFrame(block))]]

\* close(): [err, writer]
WriterClose(w) ==
  IF w.state # "open" THEN [err |-> "WriteAfterCloseError", writer |-> w]
  ELSE [err |-> "none", writer |-> [w EXCEPT !.state = "closed", !.ended = TRUE]]

(***************************************************************************)
(* Bounds of the model and the inputs drawn within them.                    *)
(***************************************************************************)
\* Longest list of blocks handed to write(blocks, roots).
MaxBlocks == 2
\* Longest list of roots handed to write(blocks, roots).
MaxRoots == 1
\* Most calls a client makes on one writer (WriterSpec).
MaxCalls == 3

\* 'hi' and 'a', of the scenario of spec.md 8; 'ho' once tampered with.
THi == <<104, 105>>
THo == <<104, 111>>
TA == <<97>>

sha3256 == [code |-> Sha3256Code, name |-> "sha3-256"]
dagPB == [code |-> DagPbCode, name |-> "dag-pb"]

\* Blocks made by Block.encode; lists over the pools hold their {cid, bytes}.
PoolRaw == BlockEncode(VBytes(THi), raw, sha256)
PoolMap == BlockEncode(VMap(TA :> VLink(PoolRaw.cid)), dagCBOR, sha256)
PoolList == BlockEncode(VList(<<VLink(PoolMap.cid), VLink(PoolRaw.cid), VInt(52)>>),
                        dagJSON, sha256)
EncodedPool == {Rec(PoolRaw), Rec(PoolMap), Rec(PoolList)}

\* {cid, bytes} pairs that another writer could have stored: bytes that do not
\* hash to the CID, a codec or a hash function the script does not register,
\* and bytes that are not dag-cbor.
PoolTampered == [cid |-> PoolRaw.cid, bytes |-> THo]
PoolForeignCodec ==
  [cid |-> CIDCreate(1, DagPbCode, Hash(Sha256Code, THi)), bytes |-> THi]
PoolForeignHash ==
  [cid |-> CIDCreate(1, RawCode, Hash(Sha3256Code, THi)), bytes |-> THi]
PoolForeignBoth ==
  [cid |-> CIDCreate(1, DagPbCode, Hash(Sha3256Code, THi)), bytes |-> THi]
PoolUndecodable ==
  [cid |-> CIDCreate(1, DagCborCode, Hash(Sha256Code, <<255>>)), bytes |-> <<255>>]
ForeignPool ==
  {PoolTampered, PoolForeignCodec, PoolForeignHash, PoolForeignBoth, PoolUndecodable}

BlockPool == EncodedPool \cup ForeignPool
\* A root that is a block of the pool and one that is not.
RootPool == {PoolMap.cid, externalLink}

ListsOf(S, n) == UNION {[1..k -> S] : k \in 0..n}

Scripts == {"modern", "legacy"}

(***************************************************************************)
(* State.                                                                   *)
(***************************************************************************)
VARIABLES
  script,       \* which script runs: "modern" (ipld-example.js) or "legacy"
  mode,         \* "run": the blocks come from createBlocks; "args": write(blocks,
                \* roots) is entered with arguments of the caller's choice
  pc,           \* where the script is
  blocks,       \* the blocks array
  roots,        \* the roots array
  putCount,            \* write: how many blocks of the array have been put
  writer,       \* the CarWriter
  piped,        \* the writer's output is piped to the file stream
  car,          \* the bytes of example.car
  carEnded,     \* the file stream has been ended
  cut,          \* where example.car was cut off after it was written (0: intact)
  reader,       \* inspect: the CarReader, [pos, roots]
  cur,          \* inspect: the {cid, bytes} of this turn of the loop
  delivered,    \* inspect: the records the reader has yielded, in order
  rootsLine,    \* inspect: the 'Roots:' line (a list of at most one entry)
  console,      \* inspect: the 'Block #' lines, in order
  createCalls,  \* inspect: the arguments of every Block.create call made
  err,          \* the error the script (or the last call) failed with, or "none"
  calls,        \* WriterSpec: calls the client has made on the writer
  arg,          \* CreateSpec: the arguments of Block.create
  res           \* CreateSpec: what Block.create returned

vars ==
  <<script, mode, pc, blocks, roots, putCount, writer, piped, car, carEnded, cut, reader,
    cur, delivered, rootsLine, console, createCalls, err, calls, arg, res>>

scriptV == <<script, mode>>
writeV == <<putCount, writer, piped, car, carEnded>>
inspectV == <<reader, cur, delivered, rootsLine, console, createCalls>>
pureV == <<calls, arg, res>>

NoReader == [pos |-> 0, roots |-> <<>>]
NoArg == [cid |-> NoCID, bytes |-> <<>>, codec |-> raw, hasher |-> sha256]
NoResult == [err |-> "pending", value |-> NoValue]

\* Everything but the script, its position and its arguments, as a process starts.
Fresh ==
  /\ putCount = 0 /\ writer = NoWriter /\ piped = FALSE /\ car = <<>> /\ carEnded = FALSE
  /\ cut = 0 /\ reader = NoReader /\ cur = NoRecord /\ delivered = <<>>
  /\ rootsLine = <<>> /\ console = <<>> /\ createCalls = <<>> /\ err = "none"
  /\ calls = 0 /\ res = NoResult

\* Either run() starts, or write(blocks, roots) is entered with lists over the pools.
InitOver(pool, rpool) ==
  /\ script \in Scripts
  /\ mode \in {"run", "args"}
  /\ IF mode = "run"
     THEN pc = "createBlocks" /\ blocks = <<>> /\ roots = <<>>
     ELSE pc = "write" /\ blocks \in ListsOf(pool, MaxBlocks)
          /\ roots \in ListsOf(rpool, MaxRoots)
  /\ Fresh /\ arg = NoArg

Init == InitOver(BlockPool, RootPool)

(***************************************************************************)
(* run / createBlocks.                                                      *)
(***************************************************************************)
\* One Block.encode and blocks.push of createBlocks.
CreateBlock ==
  /\ pc = "createBlocks"
  /\ Len(blocks) < Len(CreatedBlocks)
  /\ blocks' = Append(blocks, CreatedBlocks[Len(blocks) + 1])
  /\ UNCHANGED <<scriptV, pc, roots, writeV, cut, inspectV, err, pureV>>

\* return { blocks, roots: [grandparent.cid] }, and run() goes on to write.
ReturnBlocks ==
  /\ pc = "createBlocks"
  /\ Len(blocks) = Len(CreatedBlocks)
  /\ roots' = CreatedRoots
  /\ pc' = "write"
  /\ UNCHANGED <<scriptV, blocks, writeV, cut, inspectV, err, pureV>>

(***************************************************************************)
(* write(blocks, roots).                                                    *)
(***************************************************************************)
\* CarWriter.create(roots), and the pipe of its output to the file stream.
WriteCreateMissingRoots ==
  /\ pc = "write" /\ script = "modern"
  /\ writer' = WriterCreate(<<>>)
  /\ piped' = TRUE
  /\ pc' = "put"
  /\ UNCHANGED <<scriptV, blocks, roots, putCount, car, carEnded, cut, inspectV, err, pureV>>

WriteCreate ==
  /\ pc = "write" /\ script = "modern"
  /\ writer' = WriterCreate(roots)
  /\ piped' = TRUE
  /\ pc' = "put"
  /\ UNCHANGED <<scriptV, blocks, roots, putCount, car, carEnded, cut, inspectV, err, pureV>>

\* The older script: fs.createWriteStream and CarDatastore.writeStream(outStream).
WriteOpenStream ==
  /\ pc = "write" /\ script = "legacy"
  /\ writer' = WriterOpenStream
  /\ piped' = TRUE
  /\ pc' = "setRoots"
  /\ UNCHANGED <<scriptV, blocks, roots, putCount, car, carEnded, cut, inspectV, err, pureV>>

\* The older script: await writeDs.setRoots(roots).
WriteSetRoots ==
  /\ pc = "setRoots"
  /\ LET r == WriterSetRoots(writer, roots)
     IN  /\ writer' = r.writer
         /\ err' = r.err
         /\ pc' = IF r.err = "none" THEN "setRootsWait" ELSE "failed"
  /\ UNCHANGED <<scriptV, blocks, roots, putCount, piped, car, carEnded, cut, inspectV, pureV>>

\* The block the loop of write hands to put on its (n + 1)-th turn.
LoopBlockReversed(bs, n) == bs[Len(bs) - n]

LoopBlock(bs, n) == bs[n + 1]

\* await writer.put(block): the call.
WritePut ==
  /\ pc = "put"
  /\ putCount < Len(blocks)
  /\ LET r == WriterPut(writer, LoopBlock(blocks, putCount))
     IN  /\ writer' = r.writer
         /\ err' = r.err
         /\ pc' = IF r.err = "none" THEN "putWait" ELSE "failed"
  /\ UNCHANGED <<scriptV, blocks, roots, putCount, piped, car, carEnded, cut, inspectV, pureV>>

\* The await of setRoots or put is over once the consumer has taken what was
\* emitted.
AwaitDone ==
  /\ pc \in {"setRootsWait", "putWait"}
  /\ writer.out = <<>>
  /\ putCount' = IF pc = "putWait" THEN putCount + 1 ELSE putCount
  /\ pc' = "put"
  /\ UNCHANGED <<scriptV, blocks, roots, writer, piped, car, carEnded, cut, inspectV,
                 err, pureV>>

\* await writer.close(): the call.
WriteClose ==
  /\ pc = "put"
  /\ putCount = Len(blocks)
  /\ LET r == WriterClose(writer)
     IN  /\ writer' = r.writer
         /\ err' = r.err
         /\ pc' = IF r.err = "none" THEN "closeWait" ELSE "failed"
  /\ UNCHANGED <<scriptV, blocks, roots, putCount, piped, car, carEnded, cut, inspectV, pureV>>

\* The await of close is over once the consumer has seen the end of the output.
CloseDone ==
  /\ pc = "closeWait"
  /\ carEnded
  /\ pc' = "written"
  /\ UNCHANGED <<scriptV, blocks, roots, writeV, cut, inspectV, err, pureV>>

\* The file stream takes the next frame of the writer's output.
SinkChunkNewestFirst ==
  /\ piped
  /\ writer.out # <<>>
  /\ car' = car \o writer.out[Len(writer.out)]
  /\ writer' = [writer EXCEPT !.out = SubSeq(@, 1, Len(@) - 1)]
  /\ UNCHANGED <<scriptV, pc, blocks, roots, putCount, piped, carEnded, cut, inspectV, err,
                 pureV>>

SinkChunk ==
  /\ piped
  /\ writer.out # <<>>
  /\ car' = car \o Head(writer.out)
  /\ writer' = [writer EXCEPT !.out = Tail(@)]
  /\ UNCHANGED <<scriptV, pc, blocks, roots, putCount, piped, carEnded, cut, inspectV, err,
                 pureV>>

\* The file stream sees the end of the writer's output.
SinkEnd ==
  /\ piped
  /\ writer.out = <<>> /\ writer.ended /\ ~carEnded
  /\ carEnded' = TRUE
  /\ UNCHANGED <<scriptV, pc, blocks, roots, putCount, writer, piped, car, cut, inspectV, err,
                 pureV>>

(***************************************************************************)
(* inspect(), run as a later process on the example.car that is on disk.    *)
(***************************************************************************)
\* The tables of inspect: the codecs and the hashers it can look up by code.
codecsJsonAsCbor == DagCborCode :> dagCBOR @@ DagJsonCode :> dagCBOR @@ RawCode :> raw

codecs == DagCborCode :> dagCBOR @@ DagJsonCode :> dagJSON @@ RawCode :> raw

hashes == Sha256Code :> sha256

\* The name the older libraries give a codec code (block.codec).
CodecName(code) ==
  CASE code = RawCode -> "raw"
    [] code = DagCborCode -> "dag-cbor"
    [] code = DagJsonCode -> "dag-json"
    [] code = DagPbCode -> "dag-pb"
    [] OTHER -> "unknown"

\* CarReader.fromIterable(inStream) / CarDatastore.readStreaming(inStream): the
\* header is read before anything else.
InspectOpen ==
  LET Opened(o) ==
        /\ reader' = [pos |-> o.next, roots |-> o.roots]
        /\ err' = o.err
        /\ pc' = IF o.err = "none" THEN "roots" ELSE "failed"
  IN  /\ pc = "written"
      /\ Opened(ReaderOpen(car))
      /\ UNCHANGED <<scriptV, blocks, roots, writeV, cut, cur, delivered, rootsLine,
                     console, createCalls, pureV>>

\* console.log('Roots:', await reader.getRoots())
InspectRoots ==
  /\ pc = "roots"
  /\ rootsLine' = <<reader.roots>>
  /\ pc' = "pull"
  /\ UNCHANGED <<scriptV, blocks, roots, writeV, cut, reader, cur, delivered, console,
                 createCalls, err, pureV>>

\* One turn of 'for await (... of reader.blocks())': the pull of the next record.
\* An error of the reader is thrown out of the loop; it is not taken for the end.
InspectPullSwallowing ==
  LET Pulled(r) ==
        /\ reader' = [reader EXCEPT !.pos = r.next]
        /\ IF r.done \/ r.err # "none"
           THEN pc' = "done" /\ UNCHANGED <<cur, delivered, err>>
           ELSE /\ cur' = r.record
                /\ delivered' = Append(delivered, r.record)
                /\ pc' = "check"
                /\ UNCHANGED err
  IN  /\ pc = "pull"
      /\ Pulled(ReaderNext(car, reader.pos))
      /\ UNCHANGED <<scriptV, blocks, roots, writeV, cut, rootsLine, console,
                     createCalls, pureV>>

InspectPull ==
  LET Pulled(r) ==
        /\ reader' = [reader EXCEPT !.pos = r.next]
        /\ IF r.done
           THEN pc' = "done" /\ UNCHANGED <<cur, delivered, err>>
           ELSE IF r.err # "none"
           THEN pc' = "failed" /\ err' = r.err /\ UNCHANGED <<cur, delivered>>
           ELSE /\ cur' = r.record
                /\ delivered' = Append(delivered, r.record)
                /\ pc' = "check"
                /\ UNCHANGED err
  IN  /\ pc = "pull"
      /\ Pulled(ReaderNext(car, reader.pos))
      /\ UNCHANGED <<scriptV, blocks, roots, writeV, cut, rootsLine, console,
                     createCalls, pureV>>

\* What inspect prints of a block: its number, codec name, CID as text and value.
Line(num, name, cid, value) ==
  [n |-> num, name |-> name, cid |-> CIDToString(cid), value |-> value]

\* The loop body going on to the next record when Block.create has thrown.
InspectBlockSkipping ==
  LET Created(codec, hasher, block) ==
        /\ createCalls' = Append(createCalls,
             [cid |-> cur.cid, bytes |-> cur.bytes, codec |-> codec, hasher |-> hasher])
        /\ IF block.err = "none"
           THEN /\ console' = Append(console,
                     Line(Len(console) + 1, codecs[cur.cid.code].name, cur.cid,
                          block.value))
                /\ pc' = "pull" /\ UNCHANGED err
           ELSE pc' = "pull" /\ err' = block.err /\ UNCHANGED console
      Found(codec, hasher) ==
        Created(codec, hasher, BlockCreate(cur.cid, cur.bytes, codec, hasher))
  IN  /\ pc = "check" /\ script = "modern"
      /\ IF cur.cid.code \notin DOMAIN codecs
         THEN /\ pc' = "failed" /\ err' = "Unknown codec"
              /\ UNCHANGED <<console, createCalls>>
         ELSE IF cur.cid.mh.code \notin DOMAIN hashes
         THEN /\ pc' = "failed" /\ err' = "Unknown multihash codec"
              /\ UNCHANGED <<console, createCalls>>
         ELSE Found(codecs[cur.cid.code], hashes[cur.cid.mh.code])
      /\ UNCHANGED <<scriptV, blocks, roots, writeV, cut, reader, cur, delivered,
                     rootsLine, pureV>>

\* The loop body looking up the hasher before the codec.
InspectBlockHashFirst ==
  LET Created(codec, hasher, block) ==
        /\ createCalls' = Append(createCalls,
             [cid |-> cur.cid, bytes |-> cur.bytes, codec |-> codec, hasher |-> hasher])
        /\ IF block.err = "none"
           THEN /\ console' = Append(console,
                     Line(Len(console) + 1, codecs[cur.cid.code].name, cur.cid,
                          block.value))
                /\ pc' = "pull" /\ UNCHANGED err
           ELSE pc' = "failed" /\ err' = block.err /\ UNCHANGED console
      Found(codec, hasher) ==
        Created(codec, hasher, BlockCreate(cur.cid, cur.bytes, codec, hasher))
  IN  /\ pc = "check" /\ script = "modern"
      /\ IF cur.cid.mh.code \notin DOMAIN hashes
         THEN /\ pc' = "failed" /\ err' = "Unknown multihash codec"
              /\ UNCHANGED <<console, createCalls>>
         ELSE IF cur.cid.code \notin DOMAIN codecs
         THEN /\ pc' = "failed" /\ err' = "Unknown codec"
              /\ UNCHANGED <<console, createCalls>>
         ELSE Found(codecs[cur.cid.code], hashes[cur.cid.mh.code])
      /\ UNCHANGED <<scriptV, blocks, roots, writeV, cut, reader, cur, delivered,
                     rootsLine, pureV>>

\* The body of the loop of ipld-example.js: the two look-ups, Block.create and
\* the two console.log.
InspectBlock ==
  LET Created(codec, hasher, block) ==
        /\ createCalls' = Append(createCalls,
             [cid |-> cur.cid, bytes |-> cur.bytes, codec |-> codec, hasher |-> hasher])
        /\ IF block.err = "none"
           THEN /\ console' = Append(console,
                     Line(Len(console) + 1, codecs[cur.cid.code].name, cur.cid,
                          block.value))
                /\ pc' = "pull" /\ UNCHANGED err
           ELSE pc' = "failed" /\ err' = block.err /\ UNCHANGED console
      Found(codec, hasher) ==
        Created(codec, hasher, BlockCreate(cur.cid, cur.bytes, codec, hasher))
  IN  /\ pc = "check" /\ script = "modern"
      /\ IF cur.cid.code \notin DOMAIN codecs
         THEN /\ pc' = "failed" /\ err' = "Unknown codec"
              /\ UNCHANGED <<console, createCalls>>
         ELSE IF cur.cid.mh.code \notin DOMAIN hashes
         THEN /\ pc' = "failed" /\ err' = "Unknown multihash codec"
              /\ UNCHANGED <<console, createCalls>>
         ELSE Found(codecs[cur.cid.code], hashes[cur.cid.mh.code])
      /\ UNCHANGED <<scriptV, blocks, roots, writeV, cut, reader, cur, delivered,
                     rootsLine, pureV>>

\* The codecs the older Block library finds by the code of a CID.
registry == DagCborCode :> dagCBOR @@ DagJsonCode :> dagJSON @@ RawCode :> raw

\* block.decode() of the older library: [err, value]
LegacyDecode(cid, bytes) ==
  LET Decoded(d) ==
        IF d.ok THEN [err |-> "none", value |-> d.value]
        ELSE [err |-> "DecodeError", value |-> NoValue]
  IN  IF cid.code \notin DOMAIN registry
      THEN [err |-> "UnsupportedCodecError", value |-> NoValue]
      ELSE Decoded(CodecDecode(registry[cid.code], bytes))

\* The body of the loop of the older script: the CID is rebuilt from the key (its
\* text), Block.create(value, cid) takes no codec and no hasher, the first
\* console.log prints block.codec and the CID, the second block.decode().  Whether
\* this two-argument create compares the digest is not said by the design
\* document, so both are possible; a block that does not decode has its first
\* line printed.
InspectEntry ==
  LET Printed(cid, d) ==
        /\ console' = Append(console,
                             Line(Len(console) + 1, CodecName(cid.code), cid, d.value))
        /\ IF d.err = "none" THEN pc' = "pull" /\ UNCHANGED err
           ELSE pc' = "failed" /\ err' = d.err
      Reconstituted(c, validates) ==
        IF ~c.ok THEN pc' = "failed" /\ err' = "MalformedCIDError" /\ UNCHANGED console
        ELSE IF validates /\ Hash(c.cid.mh.code, cur.bytes) # c.cid.mh
        THEN pc' = "failed" /\ err' = "HashMismatchError" /\ UNCHANGED console
        ELSE Printed(c.cid, LegacyDecode(c.cid, cur.bytes))
  IN  /\ pc = "check" /\ script = "legacy"
      /\ \E validates \in BOOLEAN :
           Reconstituted(CIDFromString(CIDToString(cur.cid)), validates)
      /\ UNCHANGED <<scriptV, blocks, roots, writeV, cut, reader, cur, delivered,
                     rootsLine, createCalls, pureV>>

Next == CreateBlock \/ ReturnBlocks \/ WriteCreate \/ WriteOpenStream \/ WriteSetRoots
          \/ WritePut \/ AwaitDone \/ WriteClose \/ CloseDone \/ SinkChunk \/ SinkEnd
          \/ InspectOpen \/ InspectRoots \/ InspectPull \/ InspectBlock \/ InspectEntry
Spec == Init /\ [][Next]_vars

(***************************************************************************)
(* The same, the file stream taking what the writer emits: the pipe drains  *)
(* the output as long as there is any, and an await resumes once what it    *)
(* waits for has happened.                                                  *)
(***************************************************************************)
FairSpec ==
  /\ Spec
  /\ WF_vars(SinkChunk) /\ WF_vars(SinkEnd) /\ WF_vars(AwaitDone) /\ WF_vars(CloseDone)

(***************************************************************************)
(* write(blocks, roots) on lists over a smaller pool, and the example.car   *)
(* it leaves cut off before it is inspected.                                *)
(***************************************************************************)
\* example.car loses everything after its first k bytes, 0 < k < its length.
Truncate ==
  /\ pc = "written" /\ cut = 0
  /\ \E k \in 1..(Len(car) - 1) : cut' = k /\ car' = SubSeq(car, 1, k)
  /\ UNCHANGED <<scriptV, pc, blocks, roots, putCount, writer, piped, carEnded, inspectV,
                 err, pureV>>

TruncInit == InitOver({Rec(PoolMap), PoolTampered}, RootPool) /\ mode = "args"
TruncNext ==
  \/ WriteCreate \/ WriteOpenStream \/ WriteSetRoots \/ WritePut \/ AwaitDone
  \/ WriteClose \/ CloseDone \/ SinkChunk \/ SinkEnd \/ Truncate
  \/ InspectOpen \/ InspectRoots \/ InspectPull \/ InspectBlock \/ InspectEntry
TruncSpec == TruncInit /\ [][TruncNext]_vars

(***************************************************************************)
(* A client of one CarWriter that makes up to MaxCalls calls, put or close, *)
(* in any order, while the output is consumed.                              *)
(***************************************************************************)
WriterInit ==
  /\ script = "modern" /\ mode = "client" /\ pc = "client"
  /\ blocks = <<>> /\ roots \in ListsOf(RootPool, MaxRoots)
  /\ putCount = 0 /\ writer = WriterCreate(roots) /\ piped = TRUE /\ car = <<>>
  /\ carEnded = FALSE /\ cut = 0 /\ reader = NoReader /\ cur = NoRecord
  /\ delivered = <<>> /\ rootsLine = <<>> /\ console = <<>> /\ createCalls = <<>>
  /\ err = "none" /\ calls = 0 /\ arg = NoArg /\ res = NoResult

\* writer.put(block); blocks keeps the blocks the writer accepted.
ClientPut ==
  LET Called(b, r) ==
        /\ writer' = r.writer
        /\ err' = r.err
        /\ blocks' = IF r.err = "none" THEN Append(blocks, b) ELSE blocks
  IN  /\ pc = "client" /\ calls < MaxCalls
      /\ \E b \in EncodedPool : Called(b, WriterPut(writer, b))
      /\ calls' = calls + 1
      /\ UNCHANGED <<scriptV, pc, roots, putCount, piped, car, carEnded, cut, inspectV,
                     arg, res>>

\* writer.close()
ClientClose ==
  LET Called(r) == writer' = r.writer /\ err' = r.err
  IN  /\ pc = "client" /\ calls < MaxCalls
      /\ Called(WriterClose(writer))
      /\ calls' = calls + 1
      /\ UNCHANGED <<scriptV, pc, blocks, roots, putCount, piped, car, carEnded, cut,
                     inspectV, arg, res>>

WriterNext == ClientPut \/ ClientClose \/ SinkChunk \/ SinkEnd
WriterSpec == WriterInit /\ [][WriterNext]_vars

(***************************************************************************)
(* Block.create on arguments of the caller's choice: CIDs and bytes of the  *)
(* pools, the bytes of an encoded block with one byte changed, each codec   *)
(* and each hasher.                                                         *)
(***************************************************************************)
\* The byte strings that differ from bytes at exactly one position.
Flips(bytes) ==
  {[bytes EXCEPT ![p] = (@ + d) % 256] : p \in 1..Len(bytes), d \in {1, 255}}

CreateCIDs ==
  {PoolRaw.cid, PoolMap.cid, PoolList.cid, PoolForeignCodec.cid, PoolForeignHash.cid}
CreateBytes ==
  {PoolRaw.bytes, PoolMap.bytes, PoolList.bytes}
    \cup Flips(PoolRaw.bytes) \cup Flips(PoolMap.bytes)

CreateInit ==
  /\ script = "modern" /\ mode = "create" /\ pc = "create"
  /\ blocks = <<>> /\ roots = <<>> /\ Fresh
  /\ arg \in [cid : CreateCIDs, bytes : CreateBytes, codec : {raw, dagCBOR, dagJSON},
              hasher : {sha256, sha3256}]

\* Block.create({ cid, bytes, codec, hasher }) returns or throws.
Create ==
  /\ pc = "create"
  /\ res' = BlockCreate(arg.cid, arg.bytes, arg.codec, arg.hasher)
  /\ pc' = "created"
  /\ UNCHANGED <<scriptV, blocks, roots, writeV, cut, inspectV, err, calls, arg>>

CreateNext == Create
CreateSpec == CreateInit /\ [][CreateNext]_vars

(***************************************************************************)
(* What the properties below speak of.                                      *)
(***************************************************************************)
\* The frames write(blocks, roots) is to emit, in order.
Frames ==
  <<HeaderFrame(roots)>>
    \o Tuple([k \in 1..Len(blocks) |-> BlockFrame(blocks[k])], Len(blocks))

\* Everything the writer has emitted: what the file holds and what is queued.
Emitted == car \o Concat(writer.out)

RECURSIVE ReadFrom(_, _)
\* records() pulled until it ends or fails: [err, records]
ReadFrom(s, pos) ==
  LET r == ReaderNext(s, pos)
  IN  IF r.done \/ r.err # "none" THEN [err |-> r.err, records |-> <<>>]
      ELSE LET t == ReadFrom(s, r.next)
           IN  [err |-> t.err, records |-> <<r.record>> \o t.records]

\* A reader opened on s and read to its end: [err, roots, records]
ReadAll(s) ==
  LET o == ReaderOpen(s)
      t == ReadFrom(s, o.next)
  IN  IF o.err # "none" THEN [err |-> o.err, roots |-> <<>>, records |-> <<>>]
      ELSE [err |-> t.err, roots |-> o.roots, records |-> t.records]

IsPrefix(a, b) == Len(a) <= Len(b) /\ a = SubSeq(b, 1, Len(a))

(***************************************************************************)
(* C1  Container round trip: once write(blocks, roots) has created the      *)
(* writer with the roots, put the blocks in order and closed, and the file  *)
(* has seen the end of the output, a reader opened on the bytes of the file *)
(* gives the roots, equal to the roots written, and yields exactly the      *)
(* {cid, bytes} pairs of the blocks, as many and in the same order; and     *)
(* inspect, when it reaches the end, has printed those roots and been       *)
(* handed those records.                                                    *)
(***************************************************************************)
C1_RoundTrip ==
  /\ (carEnded /\ cut = 0) =>
       /\ ReadAll(car).err = "none"
       /\ ReadAll(car).roots = roots
       /\ ReadAll(car).records = blocks
  /\ (pc = "done" /\ cut = 0) => rootsLine = <<roots>> /\ delivered = blocks

\* A list with the same block twice and a root that is no block of the list has
\* been written and read back.
C1_Witness ==
  /\ pc = "done" /\ Len(blocks) = 2 /\ blocks[1] = blocks[2]
  /\ roots = <<externalLink>> /\ delivered = blocks

(***************************************************************************)
(* C7  The header is the first frame of what the writer emits and carries   *)
(* the roots write was given: whenever anything has been emitted, the       *)
(* emitted bytes open with a header frame whose roots are the roots array   *)
(* (the argument of CarWriter.create, or of setRoots in the older script),  *)
(* and no step changes the emitted header once it is there.                 *)
(***************************************************************************)
C7_HeaderFrozen ==
  /\ [](Emitted # <<>> =>
          /\ ReaderOpen(Emitted).err = "none"
          /\ ReaderOpen(Emitted).roots = roots
          /\ IsPrefix(HeaderFrame(roots), Emitted))
  /\ [][Emitted # <<>> => IsPrefix(HeaderFrame(roots), Emitted')]_vars

\* The older script has set a root that is no block and put two blocks after it.
C7_Witness ==
  /\ script = "legacy" /\ pc = "written" /\ roots = <<externalLink>>
  /\ Len(blocks) = 2 /\ putCount = 2

(***************************************************************************)
(* C10  The file stream consumes the writer's output while write runs.      *)
(* Under every interleaving what the file has received is the header frame  *)
(* and then the frames of the blocks in the order of the put calls, whole   *)
(* frames only; once a put has been awaited the file holds exactly the      *)
(* header and the frames of the puts made; when the end of the output is    *)
(* seen the file holds them all.  And as the stream keeps draining, every   *)
(* put that waits and the final close complete.                             *)
(***************************************************************************)
C10_SinkOrder ==
  /\ [](/\ \E m \in 0..Len(Frames) : car = Concat(SubSeq(Frames, 1, m))
        /\ (pc = "put" /\ putCount > 0) => car = Concat(SubSeq(Frames, 1, 1 + putCount))
        /\ carEnded => car = Concat(Frames))
  /\ (pc = "putWait" ~> pc = "put")
  /\ (pc = "closeWait" ~> pc = "written")

\* A put is waiting while the header and its own frame are both still queued.
C10_Witness == pc = "putWait" /\ Len(writer.out) = 2 /\ car = <<>>

(***************************************************************************)
(* C2  Block.create(cid, bytes, codec, hasher) produces a Block only when   *)
(* the hash of the bytes under the hasher is the multihash of the CID and   *)
(* the code of the codec is the codec code of the CID.  When the hash       *)
(* differs it fails with HashMismatchError; when the hash agrees and the    *)
(* codec code differs it fails with CodecMismatchError; a failure produces  *)
(* no value.  In particular the bytes of an encoded block with any one byte *)
(* changed, given with the block's own CID, fail with HashMismatchError.    *)
(***************************************************************************)
C2_CreateVerifies ==
  pc = "created" =>
    /\ Hash(arg.hasher.code, arg.bytes) # arg.cid.mh => res.err = "HashMismatchError"
    /\ (Hash(arg.hasher.code, arg.bytes) = arg.cid.mh /\ arg.codec.code # arg.cid.code)
         => res.err = "CodecMismatchError"
    /\ res.err = "none" =>
         /\ Hash(arg.hasher.code, arg.bytes) = arg.cid.mh
         /\ arg.codec.code = arg.cid.code
         /\ res.value.t # "none"
    /\ res.err # "none" => res.value.t = "none"
    /\ \A k \in {1, 2} :
         (arg.cid = <<PoolRaw, PoolMap>>[k].cid
            /\ arg.bytes \in Flips(<<PoolRaw, PoolMap>>[k].bytes))
           => res.err = "HashMismatchError"

\* The dag-cbor block with one byte changed was given with its CID, its codec
\* and its hasher, and was refused.
C2_Witness ==
  /\ pc = "created" /\ arg.cid = PoolMap.cid /\ arg.bytes \in Flips(PoolMap.bytes)
  /\ arg.codec = dagCBOR /\ arg.hasher = sha256 /\ res.err = "HashMismatchError"

(***************************************************************************)
(* C4  A writer goes from open to closed and never back: once close() has   *)
(* been called the writer stays closed, every later put (and close) fails   *)
(* with WriteAfterCloseError and is not taken, and the bytes emitted, those *)
(* the file holds together with those queued, are the same after every      *)
(* step.                                                                    *)
(***************************************************************************)
C4_ClosedForGood ==
  [][writer.state = "closed" =>
       /\ writer'.state = "closed"
       /\ Emitted' = Emitted
       /\ calls' # calls => (err' = "WriteAfterCloseError" /\ blocks' = blocks)]_vars

\* A put was made on a closed writer that had taken one block.
C4_Witness ==
  /\ writer.state = "closed" /\ err = "WriteAfterCloseError" /\ Len(blocks) = 1
  /\ calls = 3

\* The blocks Block.encode has made, with their values.
AllEncoded ==
  <<PoolRaw, PoolMap, PoolList, leafRaw1, leafRaw2, parent, lister, grandparent,
    evergreenPointer, palmsPointer>>
IsEncoded(rec) == \E k \in 1..Len(AllEncoded) : Rec(AllEncoded[k]) = rec
ValueOf(rec) == AllEncoded[CHOOSE k \in 1..Len(AllEncoded) : Rec(AllEncoded[k]) = rec].value

(***************************************************************************)
(* C3  Authenticity: every block made by Block.encode with raw, dag-cbor or *)
(* dag-json and sha2-256 that inspect reads back passes Block.create with   *)
(* the codec and the hasher looked up by the codes of its CID, and the      *)
(* value printed for it equals the value it was encoded from; so the        *)
(* inspection of a container whose blocks were all made by Block.encode     *)
(* fails at no block and ends having printed every one of them.             *)
(***************************************************************************)
C3_Authentic ==
  /\ \A k \in 1..Len(console) :
       IsEncoded(delivered[k]) => ValueEq(console[k].value, ValueOf(delivered[k]))
  /\ (cut = 0 /\ \A k \in 1..Len(blocks) : IsEncoded(blocks[k])) =>
       /\ pc # "failed" /\ err = "none"
       /\ pc = "pull" => Len(console) = Len(delivered)
       /\ pc = "done" => Len(console) = Len(blocks)

\* The current script has inspected the container run() made, all seven blocks.
C3_Witness ==
  /\ script = "modern" /\ mode = "run" /\ pc = "done"
  /\ Len(console) = Len(CreatedBlocks)
  /\ console[4].name = "dag-json" /\ ValueEq(console[4].value, lister.value)

(***************************************************************************)
(* C9  inspect of the current script looks the codec and the hasher up      *)
(* before it calls Block.create: a record whose CID names a codec outside   *)
(* the codec table fails with 'Unknown codec', one whose codec is in the    *)
(* table and whose hash function is outside the hash table fails with       *)
(* 'Unknown multihash codec', and for neither is Block.create called; every *)
(* call of Block.create is made with the codec and the hasher the tables    *)
(* hold for the codes of the CID, whose codes are those codes.              *)
(***************************************************************************)
C9_LookupsFirst ==
  /\ \A k \in 1..Len(createCalls) :
       /\ createCalls[k].cid.code \in DOMAIN codecs
       /\ createCalls[k].cid.mh.code \in DOMAIN hashes
       /\ createCalls[k].codec = codecs[createCalls[k].cid.code]
       /\ createCalls[k].hasher = hashes[createCalls[k].cid.mh.code]
       /\ createCalls[k].codec.code = createCalls[k].cid.code
       /\ createCalls[k].hasher.code = createCalls[k].cid.mh.code
  /\ (script = "modern" /\ delivered # <<>> /\ pc # "check") =>
       IF delivered[Len(delivered)].cid.code \notin {DagCborCode, DagJsonCode, RawCode}
       THEN /\ pc = "failed" /\ err = "Unknown codec"
            /\ Len(createCalls) = Len(delivered) - 1
       ELSE IF delivered[Len(delivered)].cid.mh.code # Sha256Code
       THEN /\ pc = "failed" /\ err = "Unknown multihash codec"
            /\ Len(createCalls) = Len(delivered) - 1
       ELSE /\ Len(createCalls) = Len(delivered)
            /\ createCalls[Len(delivered)].cid = delivered[Len(delivered)].cid
            /\ createCalls[Len(delivered)].bytes = delivered[Len(delivered)].bytes

\* A record with an unknown codec and an unknown hash function came second: the
\* first record was created, the second was refused for its codec.
C9_Witness ==
  /\ script = "modern" /\ pc = "failed" /\ err = "Unknown codec"
  /\ Len(delivered) = 2 /\ delivered[2] = PoolForeignBoth /\ Len(createCalls) = 1

(***************************************************************************)
(* C6  The container run() generates: the graph under its root.             *)
(***************************************************************************)
\* The links of the block of the container whose CID is c; none when the
\* container has no such block.
LinksFrom(recs, c) ==
  IF \E k \in 1..Len(recs) : recs[k].cid = c
  THEN LET rec == recs[CHOOSE k \in 1..Len(recs) : recs[k].cid = c]
       IN  Links(CodecDecode(codecs[c.code], rec.bytes).value)
  ELSE {}

RECURSIVE Reach(_, _, _)
\* The CIDs reachable from the CIDs of todo by the links of the blocks of recs.
Reach(recs, todo, seen) ==
  IF todo = {} THEN seen
  ELSE Reach(recs, (UNION {LinksFrom(recs, c) : c \in todo}) \ (seen \cup todo),
             seen \cup todo)

Reachable(s) == Reach(ReadAll(s).records, {ReadAll(s).roots[1]}, {})
Written(s) == {ReadAll(s).records[k].cid : k \in 1..Len(ReadAll(s).records)}

FrameEnds == {Len(Concat(SubSeq(Frames, 1, m))) : m \in 1..Len(Frames)}

\* C5 as claimed: reading a container that was cut off after byte k, for any k
\* with 0 < k < the end of its last frame, yields TruncatedRecordError.
C5_AnyCutTruncated == cut > 0 => ReadAll(car).err = "TruncatedRecordError"

\* C5 amended: reading a container that was cut off after byte k, 0 < k < the
\* end of its last frame, yields TruncatedRecordError, and never a clean end of
\* the records, for every k that is not the end of a frame; inspect then never
\* reaches its end.  Cut off exactly at the end of a frame, the container reads
\* as a whole one: the roots and the records of the frames kept, then a clean
\* end.
C5_CutInsideFrame ==
  cut > 0 =>
    /\ IsPrefix(ReadAll(car).records, blocks)
    /\ Len(ReadAll(car).records) < Len(blocks) \/ ReadAll(car).err # "none"
    /\ IF cut \in FrameEnds
       THEN ReadAll(car).err = "none" /\ ReadAll(car).roots = roots
       ELSE ReadAll(car).err = "TruncatedRecordError" /\ pc # "done"

\* A container of two blocks was cut inside the frame of the second: inspect
\* printed the first block and failed at the pull of the second.
C5_Witness ==
  /\ cut > 0 /\ cut \notin FrameEnds /\ Len(blocks) = 2
  /\ pc = "failed" /\ err = "TruncatedRecordError"
  /\ Len(delivered) = 1 /\ Len(console) = 1

(***************************************************************************)
(* C8  No skip-and-continue: at every moment the records the reader has     *)
(* handed to the loop of inspect are the first records of the container, in *)
(* its order; the blocks printed are the first of those, numbered in order, *)
(* all of them but at most the last; and once inspect has met an error, at  *)
(* the pull of a record or at its verification, no further record is        *)
(* delivered and no further block is printed.                               *)
(***************************************************************************)
C8_NoSkip ==
  /\ [](/\ IsPrefix(delivered, blocks)
        /\ Len(console) <= Len(delivered) /\ Len(delivered) <= Len(console) + 1
        /\ \A k \in 1..Len(console) :
             console[k].n = k /\ console[k].cid = CIDToString(delivered[k].cid))
  /\ [][(pc \in {"pull", "check", "failed"} /\ err # "none") =>
          (delivered' = delivered /\ console' = console)]_vars

\* The first of two records did not match its CID: nothing was printed and the
\* second record was never delivered.
C8_Witness ==
  /\ script = "modern" /\ cut = 0 /\ pc = "failed" /\ err = "HashMismatchError"
  /\ Len(blocks) = 2 /\ delivered = <<PoolTampered>> /\ console = <<>>
====
